---------------------------- MODULE Spec2Model ----------------------------
(***************************************************************************)
(* A model of mem_edit (zalo/PyWebMem): the abstract Process contract      *)
(* (abstract.py), the Linux backend (linux.py), the Windows backend        *)
(* (windows.py) and the buffer search utilities (utils.py).                *)
(*                                                                         *)
(* Four specifications share the module:                                   *)
(*   SearchSpec  - utils.search_buffer_verbatim / search_buffer /          *)
(*                 ctypes_equal applied to bounded haystacks and needles;  *)
(*   RegionSpec  - list_mapped_regions of both backends applied to a       *)
(*                 bounded snapshot of a target's address space;           *)
(*   Spec        - handles: construction, close, read, write, the          *)
(*                 open_process context manager, search_addresses;         *)
(*   MemSpec     - the same operations on one handle, with every buffer    *)
(*                 shape, address and address list.                        *)
(* Python exceptions are modelled as the status string of an outcome.      *)
(***************************************************************************)
EXTENDS Integers, Sequences, FiniteSets, TLC

VARIABLES
    \* ---- SearchSpec: utils.py ----
    haystack_buffer,    \* the haystack, a (c_ubyte * n) array: sequence of bytes
    needle_buffer,      \* the needle: [kind, bytes]
    found_verbatim,     \* result of search_buffer_verbatim: [done, out]
    found_structural,   \* result of search_buffer: [done, out]
    \* ---- the platform and the target's address space ----
    backend,            \* "linux" | "windows": mem_edit/__init__.py picks one Process class
    vm,                 \* snapshot of the target's address space: sequence of segments
    regions_result,     \* [writeable_only -> outcome of list_mapped_regions(writeable_only)]
    \* ---- Spec: processes, handles and the caller ----
    os,                 \* the operating system: ptrace attachments, run states, handle table
    mem,                \* mem[pid][address]: the bytes of each target's mapped memory
    handles,            \* the Process objects constructed so far
    scope,              \* the handle of the open_process with-block being run, 0 if none
    cm_opens,           \* constructions done by open_process that succeeded
    cm_closes,          \* close calls made by open_process
    last,               \* the caller's last operation and its outcome
    \* ---- ShmSpec: main.py and the consumer of its shared block ----
    demo                \* position of write_to_shared_memory, its input, the consumer

searchVars == <<haystack_buffer, needle_buffer, found_verbatim, found_structural>>
regionVars == <<backend, vm, regions_result>>
procVars == <<os, mem, handles, scope, cm_opens, cm_closes, last>>
vars == <<searchVars, regionVars, procVars, demo>>

---------------------------------------------------------------------------
(* Bounds of the model *)
MaxHaystack == 4        \* longest haystack, in bytes
MaxNeedle == 2          \* longest needle, in bytes

ByteVals == {0, 1}      \* the byte values buffers and memory are drawn from

RECURSIVE SeqsUpTo(_, _)
SeqsUpTo(S, n) ==
    IF n = 0 THEN {<<>>}
    ELSE LET shorter == SeqsUpTo(S, n - 1)
         IN  shorter \cup {Append(s, x) : s \in {t \in shorter : Len(t) = n - 1}, x \in S}

SeqsOfLen(S, n) == {s \in SeqsUpTo(S, n) : Len(s) = n}

Range(s) == {s[i] : i \in 1..Len(s)}

StrictlyIncreasing(s) == \A i \in 1..Len(s) : \A j \in 1..Len(s) : i < j => s[i] < s[j]

---------------------------------------------------------------------------
(* ctypes buffers.  A buffer is its type (kind) and its raw bytes:         *)
(*   "scalar" - a _SimpleCData unsigned integer of sizeof = Len(bytes)     *)
(*              (c_ubyte, c_uint16), little endian;                        *)
(*   "array"  - a (c_ubyte * n) ctypes.Array, n = Len(bytes).              *)
Scalar(bs) == [kind |-> "scalar", bytes |-> bs]
Array(bs) == [kind |-> "array", bytes |-> bs]

sizeof(buf) == Len(buf.bytes)

\* bytes(buffer): the raw representation
bytes(buf) == buf.bytes

\* type(buffer): the ctypes class, which fixes kind and size
type(buf) == <<buf.kind, Len(buf.bytes)>>

\* .value of a scalar: the little-endian unsigned integer held in its bytes
RECURSIVE value(_)
value(bs) == IF bs = <<>> THEN 0 ELSE bs[1] + 256 * value(Tail(bs))

\* read_type.from_buffer(haystack_buffer, offset): a view of the needle's type
\* over the haystack's bytes at [offset, offset + size)
from_buffer(kind, size, hay, offset) ==
    [kind |-> kind, bytes |-> SubSeq(hay, offset + 1, offset + size)]

\* utils.ctypes_equal for scalars and arrays
ctypes_equal(a, b) ==
    IF type(a) # type(b) THEN FALSE
    ELSE IF a.kind = "array"
         THEN [i \in 1..Len(a.bytes) |-> a.bytes[i]] = [i \in 1..Len(b.bytes) |-> b.bytes[i]]
         ELSE value(a.bytes) = value(b.bytes)

---------------------------------------------------------------------------
(* ctypes values with their structure, for ctypes_equal as a whole.  A     *)
(* value is [kind, ctype, v, elems]: a "scalar" of class ctype holding v;  *)
(* an "array" of elems; a "struct" (ctypes.Structure or ctypes.Union)      *)
(* whose declared fields hold elems; an "int", the Python integer that     *)
(* reading a scalar field or a scalar array element yields.                *)

CScalar(c, v) == [kind |-> "scalar", ctype |-> c, v |-> v, elems |-> <<>>]
CArray(es) == [kind |-> "array", ctype |-> "Array", v |-> 0, elems |-> es]
CStruct(fs) == [kind |-> "struct", ctype |-> "Structure", v |-> 0, elems |-> fs]
PyInt(v) == [kind |-> "int", ctype |-> "int", v |-> v, elems |-> <<>>]

\* type(x): the class, which for arrays and records fixes the element and
\* field classes
RECURSIVE TypeOf(_)
TypeOf(x) ==
    [kind |-> x.kind, ctype |-> x.ctype,
     sub |-> [i \in 1..Len(x.elems) |-> TypeOf(x.elems[i])]]

\* getattr(record, name) and array[i]: a scalar comes back as a Python int,
\* an array or record as a new ctypes object sharing the memory
GetItem(x) == IF x.kind = "scalar" THEN PyInt(x.v) ELSE x

\* a[:] == b[:] on two lists of equal length: ints compare by value, ctypes
\* objects by identity, and the two slices hold different objects
ListsEqual(xs, ys) ==
    \A i \in 1..Len(xs) :
        /\ GetItem(xs[i]).kind = "int"
        /\ GetItem(xs[i]).v = GetItem(ys[i]).v

\* isinstance(a, ctypes_buffer_t) on the record a itself
IsBufferT(a) == a.kind \in {"scalar", "array", "struct"}

\* utils.ctypes_equal: [raised, out]
RECURSIVE ctypes_equal_rec(_, _)
RECURSIVE FieldsLoop(_, _, _)
FieldsLoop(a, b, i) ==
    IF i > Len(a.elems) THEN [raised |-> FALSE, out |-> TRUE]
    ELSE LET a_attr == GetItem(a.elems[i])
             b_attr == GetItem(b.elems[i])
         IN  IF IsBufferT(a)
             THEN LET r == ctypes_equal_rec(a_attr, b_attr)
                  IN  IF r.raised \/ ~r.out THEN r ELSE FieldsLoop(a, b, i + 1)
             ELSE IF a_attr # b_attr THEN [raised |-> FALSE, out |-> FALSE]
             ELSE FieldsLoop(a, b, i + 1)

ctypes_equal_rec(a, b) ==
    IF TypeOf(a) # TypeOf(b) THEN [raised |-> FALSE, out |-> FALSE]
    ELSE IF a.kind = "array" THEN [raised |-> FALSE, out |-> ListsEqual(a.elems, b.elems)]
    ELSE IF a.kind = "struct" THEN FieldsLoop(a, b, 1)
    ELSE IF a.kind = "int" THEN [raised |-> TRUE, out |-> FALSE]
    ELSE [raised |-> FALSE, out |-> a.v = b.v]

---------------------------------------------------------------------------
(* utils.search_buffer_verbatim *)

\* haystack[o : o + len(needle)] == needle, offsets counted from 0
MatchAt(hay, ndl, o) ==
    /\ o >= 0
    /\ o + Len(ndl) <= Len(hay)
    /\ SubSeq(hay, o + 1, o + Len(ndl)) = ndl

\* bytes.find(needle, start): the lowest offset >= start of an occurrence, or -1
find(hay, ndl, start) ==
    LET hits == {o \in start..Len(hay) : MatchAt(hay, ndl, o)}
    IN  IF hits = {} THEN -1 ELSE CHOOSE o \in hits : \A p \in hits : o <= p

\* where the scan resumes after a hit: start = result + 1
ResumeNonOverlapping(result, ndl) == result + Len(ndl)
Resume(result, ndl) == result + 1

\* the while loop of search_buffer_verbatim
RECURSIVE VerbatimLoop(_, _, _, _, _)
VerbatimLoop(hay, ndl, start, result, found) ==
    IF start < Len(hay) /\ result # -1
    THEN VerbatimLoop(hay, ndl, Resume(result, ndl),
                      find(hay, ndl, Resume(result, ndl)), Append(found, result))
    ELSE found

search_buffer_verbatim(needle, hay) ==
    VerbatimLoop(hay, bytes(needle), 0, find(hay, bytes(needle), 0), <<>>)

---------------------------------------------------------------------------
(* utils.search_buffer *)

\* range(0, len(haystack_buffer) - ctypes.sizeof(needle_buffer))
Offsets(hay, needle) == 0..(Len(hay) - sizeof(needle) - 1)

RECURSIVE StructuralLoop(_, _, _, _, _)
StructuralLoop(hay, needle, offset, stop, found) ==
    IF offset > stop THEN found
    ELSE StructuralLoop(hay, needle, offset + 1, stop,
             IF ctypes_equal(needle, from_buffer(needle.kind, sizeof(needle), hay, offset))
             THEN Append(found, offset) ELSE found)

search_buffer(needle, hay) ==
    LET offs == Offsets(hay, needle)
    IN  IF offs = {} THEN <<>>
        ELSE StructuralLoop(hay, needle, 0, CHOOSE m \in offs : \A o \in offs : o <= m, <<>>)

\* the search variables while another specification runs
NotRun == [done |-> FALSE, out |-> <<>>]

\* main.py has not called write_to_shared_memory
NoDemo ==
    [pc |-> "idle", consumer |-> "waiting", input |-> [itemsize |-> 1, bytes |-> <<>>],
     control |-> 0]

SearchIdle ==
    /\ haystack_buffer = <<>>
    /\ needle_buffer = Scalar(<<0>>)
    /\ found_verbatim = NotRun
    /\ found_structural = NotRun

---------------------------------------------------------------------------
(* The target's address space.  A snapshot is a sequence of segments that  *)
(* tile [MinAppAddr, MaxAppAddr); a segment is [size, attr].  On Linux     *)
(* attr is the permission string of a VMA, or "gap" for an unmapped hole;  *)
(* on Windows it is the (Type, State, Protect) VirtualQueryEx reports.     *)

PageSize == 2           \* bytes per page of the model's address space
AppPages == 4           \* pages between the minimum and maximum application address
MinAppAddr == 2 * PageSize
MaxAppAddr == MinAppAddr + AppPages * PageSize

\* windows.py mem_states
MEM_COMMIT == 4096
MEM_FREE == 65536
MEM_RESERVE == 8192
\* windows.py page_protections
PAGE_EXECUTE_READ == 32
PAGE_EXECUTE_READWRITE == 64
PAGE_NOACCESS == 1
PAGE_READWRITE == 4
PAGE_READABLE == 100            \* 0x20 | 0x40 | 0x04
PAGE_READWRITEABLE == 68        \* 0x40 | 0x04
\* windows.py mem_types
MEM_MAPPED == 262144
MEM_PRIVATE == 131072

RECURSIVE BitAnd(_, _)
BitAnd(a, b) ==
    IF a = 0 \/ b = 0 THEN 0
    ELSE (IF a % 2 = 1 /\ b % 2 = 1 THEN 1 ELSE 0) + 2 * BitAnd(a \div 2, b \div 2)

\* the [vvar] mapping every process has: listed as readable in the maps
\* file, but a read of it through /proc/<pid>/mem fails with EIO
Vvar == <<"r", "-", "-", "p", "[vvar]">>

LinuxAttrs == {<<"r", "w", "-", "p">>, <<"r", "-", "x", "p">>, <<"-", "-", "-", "p">>,
               <<"-", "w", "-", "p">>, <<"g", "a", "p">>, Vvar}
IsGap(attr) == attr = <<"g", "a", "p">>

WinAttr(t, s, p) == [Type |-> t, State |-> s, Protect |-> p]
WindowsAttrs == {WinAttr(MEM_PRIVATE, MEM_COMMIT, PAGE_READWRITE),
                 WinAttr(MEM_PRIVATE, MEM_COMMIT, PAGE_EXECUTE_READ),
                 WinAttr(MEM_PRIVATE, MEM_COMMIT, PAGE_NOACCESS),
                 WinAttr(MEM_PRIVATE, MEM_COMMIT, 2),     \* winnt.h PAGE_READONLY
                 WinAttr(MEM_MAPPED, MEM_COMMIT, PAGE_READWRITE),
                 WinAttr(MEM_PRIVATE, MEM_COMMIT, 260),   \* PAGE_READWRITE | PAGE_GUARD
                 WinAttr(MEM_PRIVATE, MEM_RESERVE, 0),
                 WinAttr(0, MEM_FREE, PAGE_NOACCESS)}

Attrs(b) == IF b = "linux" THEN LinuxAttrs ELSE WindowsAttrs

RECURSIVE TotalPages(_)
TotalPages(segs) == IF segs = <<>> THEN 0 ELSE segs[1].size + TotalPages(Tail(segs))

\* every tiling of n pages by segments of one or two pages
RECURSIVE Tilings(_, _)
Tilings(b, n) ==
    IF n = 0 THEN {<<>>}
    ELSE {<<seg>> \o rest : seg \in [size : {1}, attr : Attrs(b)], rest \in Tilings(b, n - 1)}
         \cup (IF n >= 2
               THEN {<<seg>> \o rest : seg \in [size : {2}, attr : Attrs(b)],
                                       rest \in Tilings(b, n - 2)}
               ELSE {})

\* every tiling of the application range
Snapshots(b) == Tilings(b, AppPages)

\* address at which segment i of the snapshot starts / stops
SegStart(segs, i) == MinAppAddr + PageSize * TotalPages(SubSeq(segs, 1, i - 1))
SegStop(segs, i) == SegStart(segs, i) + PageSize * segs[i].size

---------------------------------------------------------------------------
(* Linux: /proc/<pid>/maps and linux.Process.list_mapped_regions *)

HexDigits == <<"0", "1", "2", "3", "4", "5", "6", "7",
               "8", "9", "a", "b", "c", "d", "e", "f">>

\* the kernel prints each bound with %08lx; the model prints two digits
ToHex(n) == <<HexDigits[(n \div 16) + 1], HexDigits[(n % 16) + 1]>>

HexVal(c) == (CHOOSE i \in 1..16 : HexDigits[i] = c) - 1

\* int(bound, 16)
RECURSIVE ParseHex(_)
ParseHex(cs) ==
    IF cs = <<>> THEN 0 ELSE 16 * ParseHex(SubSeq(cs, 1, Len(cs) - 1)) + HexVal(cs[Len(cs)])

\* one line of the maps file, as line.split()[0:2] sees it: "start-stop" and "rwxp"
MapsLine(segs, i) ==
    [bounds |-> ToHex(SegStart(segs, i)) \o <<"-">> \o ToHex(SegStop(segs, i)),
     privileges |-> SubSeq(segs[i].attr, 1, 4)]

RECURSIVE MapsFrom(_, _)
MapsFrom(segs, i) ==
    IF i > Len(segs) THEN <<>>
    ELSE (IF IsGap(segs[i].attr) THEN <<>> ELSE <<MapsLine(segs, i)>>) \o MapsFrom(segs, i + 1)

\* the content of /proc/<pid>/maps for the snapshot: one line per VMA, by address
ProcMaps(segs) == MapsFrom(segs, 1)

\* bounds.split('-')
DashAt(cs) == CHOOSE i \in 1..Len(cs) : cs[i] = "-"
SplitBounds(cs) == <<SubSeq(cs, 1, DashAt(cs) - 1), SubSeq(cs, DashAt(cs) + 1, Len(cs))>>

\* 'c' in privileges
In(c, privileges) == \E i \in 1..Len(privileges) : privileges[i] = c

\* the filter of the loop body: a line is skipped unless this holds
LinuxKeepEither(privileges, writeable_only) ==
    IF writeable_only THEN In("w", privileges) ELSE In("r", privileges)
LinuxKeep(privileges, writeable_only) ==
    /\ In("r", privileges)
    /\ ~(writeable_only /\ ~In("w", privileges))

RECURSIVE LinuxRegionsLoop(_, _, _)
LinuxRegionsLoop(lines, writeable_only, regions) ==
    IF lines = <<>> THEN regions
    ELSE LET line == lines[1]
             bound == SplitBounds(line.bounds)
         IN  LinuxRegionsLoop(Tail(lines), writeable_only,
                 IF LinuxKeep(line.privileges, writeable_only)
                 THEN Append(regions, <<ParseHex(bound[1]), ParseHex(bound[2])>>)
                 ELSE regions)

\* linux.Process.list_mapped_regions; pid = 0 stands for self.pid = None, for
\* which /proc/None/maps does not exist
LinuxListMappedRegions(pid, segs, writeable_only) ==
    IF pid = 0 THEN [status |-> "FileNotFoundError", out |-> <<>>]
    ELSE [status |-> "ok", out |-> LinuxRegionsLoop(ProcMaps(segs), writeable_only, <<>>)]

---------------------------------------------------------------------------
(* Windows: VirtualQueryEx and windows.Process.list_mapped_regions *)

MbiSize == 48           \* ctypes.sizeof(MEMORY_BASIC_INFORMATION64)

\* the segment of the snapshot holding `address`
SegAt(segs, address) ==
    CHOOSE i \in 1..Len(segs) : SegStart(segs, i) <= address /\ address < SegStop(segs, i)

\* kernel32.VirtualQueryEx(handle, address, mbi_ptr, mbi_size): the number of
\* bytes written to mbi, 0 on failure (an invalid handle); RegionSize counts
\* from the queried page to the end of the region
VirtualQueryEx(handle_valid, segs, address) ==
    IF ~handle_valid \/ address < MinAppAddr \/ address >= MaxAppAddr
    THEN [success |-> 0, mbi |-> WinAttr(0, 0, 0), RegionSize |-> 0]
    ELSE LET i == SegAt(segs, address)
         IN  [success |-> MbiSize, mbi |-> segs[i].attr,
              RegionSize |-> SegStop(segs, i) - address]

\* the condition without its test of the region's type
WindowsKeepAnyType(page_info, writeable_only) ==
    /\ page_info.State = MEM_COMMIT
    /\ BitAnd(page_info.Protect, PAGE_READABLE) # 0
    /\ (BitAnd(page_info.Protect, PAGE_READWRITEABLE) # 0 \/ ~writeable_only)

\* the condition under which the walk appends (page_ptr, page_ptr + RegionSize)
WindowsKeep(page_info, writeable_only) ==
    /\ page_info.Type = MEM_PRIVATE
    /\ page_info.State = MEM_COMMIT
    /\ BitAnd(page_info.Protect, PAGE_READABLE) # 0
    /\ (BitAnd(page_info.Protect, PAGE_READWRITEABLE) # 0 \/ ~writeable_only)

\* the while page_ptr < stop loop, get_mem_info inlined
RECURSIVE WindowsRegionsLoop(_, _, _, _, _)
WindowsRegionsLoop(handle_valid, segs, writeable_only, page_ptr, regions) ==
    IF ~(page_ptr < MaxAppAddr) THEN [status |-> "ok", out |-> regions]
    ELSE LET q == VirtualQueryEx(handle_valid, segs, page_ptr)
         IN  IF q.success # MbiSize
             THEN [status |-> "MemEditError", out |-> <<>>]
             ELSE WindowsRegionsLoop(handle_valid, segs, writeable_only,
                      page_ptr + q.RegionSize,
                      IF WindowsKeep(q.mbi, writeable_only)
                      THEN Append(regions, <<page_ptr, page_ptr + q.RegionSize>>)
                      ELSE regions)

\* windows.Process.list_mapped_regions
WindowsListMappedRegions(handle_valid, segs, writeable_only) ==
    WindowsRegionsLoop(handle_valid, segs, writeable_only, MinAppAddr, <<>>)

---------------------------------------------------------------------------
(* The operating system seen by Spec.  Pids 1 and 2 exist and may be       *)
(* attached to; pid 3 does not exist.  Every target has the address space  *)
(* ProcSnapshot: a read-write page, a hole, a read-execute page, a page    *)
(* that is enumerated but cannot be read ([vvar] / a guard page), holes.   *)

MaxHandles == 2         \* Process objects the caller constructs in one run

Existing == {1, 2}
Pids == Existing \cup {3}
HandleVals == 1..MaxHandles

ProcSnapshot(b) ==
    (IF b = "linux"
     THEN <<[size |-> 1, attr |-> <<"r", "w", "-", "p">>],
            [size |-> 1, attr |-> <<"g", "a", "p">>],
            [size |-> 1, attr |-> <<"r", "-", "x", "p">>],
            [size |-> 1, attr |-> Vvar]>>
     ELSE <<[size |-> 1, attr |-> WinAttr(MEM_PRIVATE, MEM_COMMIT, PAGE_READWRITE)],
            [size |-> 1, attr |-> WinAttr(0, MEM_FREE, PAGE_NOACCESS)],
            [size |-> 1, attr |-> WinAttr(MEM_PRIVATE, MEM_COMMIT, PAGE_EXECUTE_READ)],
            [size |-> 1, attr |-> WinAttr(MEM_PRIVATE, MEM_COMMIT, 260)]>>)
    \o [i \in 1..(AppPages - 4) |->
            [size |-> 1, attr |-> IF b = "linux" THEN <<"g", "a", "p">>
                                  ELSE WinAttr(0, MEM_FREE, PAGE_NOACCESS)]]

\* whether the target has memory at an address, and whether a debugger may
\* store to it
AttrMapped(b, attr) ==
    IF b = "linux" THEN ~IsGap(attr) /\ attr # Vvar
    ELSE /\ attr.State = MEM_COMMIT
         /\ attr.Protect # PAGE_NOACCESS
         /\ BitAnd(attr.Protect, 256) = 0       \* PAGE_GUARD
AttrWritable(b, attr) ==
    IF b = "linux" THEN In("w", attr)
    ELSE /\ attr.State = MEM_COMMIT
         /\ BitAnd(attr.Protect, PAGE_READWRITEABLE) # 0
         /\ BitAnd(attr.Protect, 256) = 0       \* PAGE_GUARD

InAppRange(a) == MinAppAddr <= a /\ a < MaxAppAddr
MappedAt(a) == InAppRange(a) /\ AttrMapped(backend, vm[SegAt(vm, a)].attr)
WritableAt(a) == InAppRange(a) /\ AttrWritable(backend, vm[SegAt(vm, a)].attr)
RangeMapped(a, n) == \A x \in a..(a + n - 1) : MappedAt(x)
RangeWritable(a, n) == \A x \in a..(a + n - 1) : WritableAt(x)

MappedAddrs(b) ==
    {a \in MinAppAddr..(MaxAppAddr - 1) :
        AttrMapped(b, ProcSnapshot(b)[SegAt(ProcSnapshot(b), a)].attr)}

\* the n bytes of pid's memory at address a
Peek(m, pid, a, n) == [i \in 1..n |-> m[pid][a + i - 1]]
\* pid's memory with bs stored at address a
Poke(m, pid, a, bs) ==
    [m EXCEPT ![pid] = [x \in DOMAIN m[pid] |->
        IF a <= x /\ x < a + Len(bs) THEN bs[x - a + 1] ELSE m[pid][x]]]

OsInit ==
    [visible |-> Cardinality(Existing),
     tracer |-> [p \in Existing |-> FALSE],
     run |-> [p \in Existing |-> "running"],
     table |-> [v \in HandleVals |-> 0]]

---------------------------------------------------------------------------
(* Process objects.  pid = 0 stands for linux.Process.pid = None and       *)
(* process_handle = 0 for windows.Process.process_handle = None.           *)

\* abstract.py: the methods declared with @abstractmethod
AbstractMethods ==
    {"__init__", "close", "write_memory", "write_memory_pointer", "read_memory",
     "list_mapped_regions", "get_path", "list_available_pids", "get_pid_by_name"}

\* the methods each class body defines.  "Process" is the class
\* mem_edit/__init__.py exports for the platform; "Completed" is a caller's
\* subclass of linux.Process that adds the one method linux.py leaves out.
LinuxDefines ==
    {"__init__", "close", "write_memory", "read_memory", "get_path",
     "list_available_pids", "get_pid_by_name", "get_pids_by_name", "list_mapped_regions"}
WindowsDefines ==
    {"__init__", "close", "write_memory", "write_memory_pointer", "read_memory",
     "_get_last_error", "get_path", "list_available_pids", "get_pid_by_name",
     "get_pids_by_name", "list_mapped_regions"}

Classes(b) == IF b = "linux" THEN {"Process", "Completed"} ELSE {"Process"}

Defines(b, cls) ==
    IF b = "windows" THEN WindowsDefines
    ELSE IF cls = "Completed" THEN LinuxDefines \cup {"write_memory_pointer"}
    ELSE LinuxDefines

\* ABCMeta: a class can be instantiated only when no abstract method is left
Instantiable(b, cls) == AbstractMethods \ Defines(b, cls) = {}

NoHandle == [made |-> FALSE, cls |-> "Process", pid |-> 0, process_handle |-> 0]

\* usable: the attribute the backend's methods go through is not None
Live(b, hrec) ==
    hrec.made /\ (IF b = "linux" THEN hrec.pid # 0 ELSE hrec.process_handle # 0)

FreeSlots(hs) == {h \in DOMAIN hs : ~hs[h].made}
NextSlot(hs) == CHOOSE h \in FreeSlots(hs) : \A g \in FreeSlots(hs) : h <= g

---------------------------------------------------------------------------
(* linux.py: ptrace and the constructor *)

\* libc ptrace(PTRACE_SEIZE, pid): -1 with errno ESRCH (3) for a pid that does
\* not exist, EPERM (1) for one already traced
SeizeSyscall(o, pid) ==
    IF pid \notin Existing THEN [result |-> -1, errno |-> 3, os |-> o]
    ELSE IF o.tracer[pid] THEN [result |-> -1, errno |-> 1, os |-> o]
    ELSE [result |-> 0, errno |-> 0, os |-> [o EXCEPT !.tracer[pid] = TRUE]]

\* libc ptrace(PTRACE_DETACH, pid, 0, 0): the tracee must be in a stop its
\* tracer has waited for.  stays_stopped: the stop signal was taken by the
\* whole thread group, so the target stays stopped after the detach.
DetachSyscall(o, pid, observed, stays_stopped) ==
    IF pid \notin Existing \/ ~o.tracer[pid] \/ ~observed
    THEN [result |-> -1, errno |-> 3, os |-> o]
    ELSE [result |-> 0, errno |-> 0,
          os |-> [o EXCEPT !.tracer[pid] = FALSE,
                           !.run[pid] = IF stays_stopped THEN "stopped" ELSE "running"]]

\* linux.ptrace: the wrapper raises MemEditError when the call returns -1 with
\* errno set
Ptrace(call) == IF call.result = -1 /\ call.errno # 0 THEN "MemEditError" ELSE "ok"

\* linux.Process.__init__
LinuxConstruct(o, process_id) ==
    LET call == SeizeSyscall(o, process_id)
    IN  IF Ptrace(call) # "ok"
        THEN [status |-> Ptrace(call), os |-> call.os, pid |-> 0, process_handle |-> 0]
        ELSE [status |-> "ok", os |-> call.os, pid |-> process_id, process_handle |-> 0]

---------------------------------------------------------------------------
(* linux.Process.close *)

\* the calls close makes, in order
CloseStepsWithoutCont == <<"SIGSTOP", "waitpid", "PTRACE_DETACH">>
CloseSteps == <<"SIGSTOP", "waitpid", "PTRACE_DETACH", "SIGCONT">>

\* one call of close.  st = [os, observed, log, status]; fault: the call is
\* interrupted or refused by the system
CloseCall(step, st, pid, fault, stays_stopped) ==
    LET st1 == [st EXCEPT !.log = Append(st.log, step)]
    IN  CASE pid = 0 /\ step \in {"SIGSTOP", "waitpid", "SIGCONT"} ->
                 [st1 EXCEPT !.status = "TypeError"]
          [] fault -> [st1 EXCEPT !.status = "OSError"]
          [] step = "SIGSTOP" ->
                 [st1 EXCEPT !.os = [st.os EXCEPT !.run[pid] = "stopped"]]
          [] step = "waitpid" ->
                 IF ~st.os.tracer[pid] THEN [st1 EXCEPT !.status = "ChildProcessError"]
                 ELSE IF st.os.run[pid] # "stopped" THEN [st1 EXCEPT !.status = "blocked"]
                 ELSE [st1 EXCEPT !.observed = TRUE]
          [] step = "PTRACE_DETACH" ->
                 LET call == DetachSyscall(st.os, pid, st.observed, stays_stopped)
                 IN  [st1 EXCEPT !.os = call.os, !.status = Ptrace(call)]
          [] step = "SIGCONT" ->
                 [st1 EXCEPT !.os = [st.os EXCEPT !.run[pid] = "running"]]

\* a close whose calls go on after one of them raised
RECURSIVE CloseRunMasking(_, _, _, _, _, _)
CloseRunMasking(steps, st, pid, fail_at, stays_stopped, k) ==
    IF steps = <<>> THEN st
    ELSE CloseRunMasking(Tail(steps), CloseCall(steps[1], st, pid, fail_at = k, stays_stopped),
                         pid, fail_at, stays_stopped, k + 1)

RECURSIVE CloseRun(_, _, _, _, _, _)
CloseRun(steps, st, pid, fail_at, stays_stopped, k) ==
    IF steps = <<>> \/ st.status # "ok" THEN st
    ELSE CloseRun(Tail(steps), CloseCall(steps[1], st, pid, fail_at = k, stays_stopped),
                  pid, fail_at, stays_stopped, k + 1)

\* linux.Process.close: self.pid = None is reached only when no call raised
LinuxClose(o, hrec, fail_at, stays_stopped) ==
    LET st == CloseRun(CloseSteps, [os |-> o, observed |-> FALSE, log |-> <<>>, status |-> "ok"],
                       hrec.pid, fail_at, stays_stopped, 1)
    IN  [status |-> st.status, os |-> st.os, log |-> st.log,
         pid |-> IF st.status = "ok" THEN 0 ELSE hrec.pid,
         process_handle |-> hrec.process_handle]

---------------------------------------------------------------------------
(* windows.py: the constructor and close *)

FreeVals(o) == {v \in HandleVals : o.table[v] = 0}

\* kernel32.OpenProcess(PROCESS_RW, False, pid): a new handle, or NULL
OpenProcess(o, pid) ==
    IF pid \notin Existing \/ FreeVals(o) = {} THEN [handle |-> 0, os |-> o]
    ELSE LET v == CHOOSE v \in FreeVals(o) : \A w \in FreeVals(o) : v <= w
         IN  [handle |-> v, os |-> [o EXCEPT !.table[v] = pid]]

\* kernel32.CloseHandle(handle): nothing happens for NULL or a stale value
CloseHandle(o, handle) ==
    IF handle \in HandleVals /\ o.table[handle] # 0 THEN [o EXCEPT !.table[handle] = 0] ELSE o

HandleValid(o, handle) == handle \in HandleVals /\ o.table[handle] # 0

\* windows.Process.__init__
WindowsConstruct(o, process_id) ==
    LET call == OpenProcess(o, process_id)
    IN  IF call.handle = 0
        THEN [status |-> "MemEditError", os |-> call.os, pid |-> 0, process_handle |-> 0]
        ELSE [status |-> "ok", os |-> call.os, pid |-> 0, process_handle |-> call.handle]

\* windows.Process.close
WindowsClose(o, hrec) ==
    [status |-> "ok", os |-> CloseHandle(o, hrec.process_handle), log |-> <<"CloseHandle">>,
     pid |-> hrec.pid, process_handle |-> 0]

\* cls(process_id): ABCMeta refuses an abstract class before __init__ runs
Construct(b, cls, o, process_id) ==
    IF ~Instantiable(b, cls)
    THEN [status |-> "TypeError", os |-> o, pid |-> 0, process_handle |-> 0]
    ELSE IF b = "linux" THEN LinuxConstruct(o, process_id)
    ELSE WindowsConstruct(o, process_id)

---------------------------------------------------------------------------
(* read_memory and write_memory.  A buffer of kind "object" is a Python    *)
(* object that is no ctypes instance.                                      *)

NotCtypes == [kind |-> "object", bytes |-> <<>>]

\* linux.Process.read_memory: open /proc/<pid>/mem, seek, readinto
LinuxReadMemory(m, hrec, base_address, read_buffer) ==
    IF hrec.pid = 0 THEN [status |-> "FileNotFoundError", buf |-> read_buffer]
    ELSE IF read_buffer.kind = "object" THEN [status |-> "TypeError", buf |-> read_buffer]
    ELSE IF ~RangeMapped(base_address, sizeof(read_buffer))
    THEN [status |-> "OSError", buf |-> read_buffer]
    ELSE [status |-> "ok",
          buf |-> [read_buffer EXCEPT
                      !.bytes = Peek(m, hrec.pid, base_address, sizeof(read_buffer))]]

\* kernel32.ReadProcessMemory(handle, address, buffer, size, None): nonzero
\* and the bytes copied, or 0 and the buffer as it was
ReadProcessMemory(o, m, handle, address, buf) ==
    IF HandleValid(o, handle) /\ RangeMapped(address, sizeof(buf))
    THEN [ret |-> 1, buf |-> [buf EXCEPT !.bytes = Peek(m, o.table[handle], address, sizeof(buf))]]
    ELSE [ret |-> 0, buf |-> buf]

\* windows.Process.read_memory: the primitive's return value is not looked
\* at; only an exception raised while converting the arguments is rewritten
WindowsReadMemory(o, m, hrec, base_address, read_buffer) ==
    IF read_buffer.kind = "object" THEN [status |-> "MemEditError", buf |-> read_buffer]
    ELSE LET call == ReadProcessMemory(o, m, hrec.process_handle, base_address, read_buffer)
         IN  [status |-> "ok", buf |-> call.buf]

ReadMemory(o, m, hrec, base_address, read_buffer) ==
    IF backend = "linux" THEN LinuxReadMemory(m, hrec, base_address, read_buffer)
    ELSE WindowsReadMemory(o, m, hrec, base_address, read_buffer)

\* linux.Process.write_memory: the second definition of the class body
\* replaces the first; it takes (base_address, write_buffer, size), so the
\* contract's call write_memory(base_address, write_buffer) cannot bind
LinuxWriteMemory(m, hrec, base_address, write_buffer) ==
    [status |-> "TypeError", mem |-> m]

\* kernel32.WriteProcessMemory(handle, address, buffer, size, None)
WriteProcessMemory(o, m, handle, address, bs) ==
    IF HandleValid(o, handle) /\ RangeWritable(address, Len(bs))
    THEN [ret |-> 1, mem |-> Poke(m, o.table[handle], address, bs)]
    ELSE [ret |-> 0, mem |-> m]

\* windows.Process.write_memory
WindowsWriteMemory(o, m, hrec, base_address, write_buffer) ==
    IF write_buffer.kind = "object" THEN [status |-> "MemEditError", mem |-> m]
    ELSE LET call == WriteProcessMemory(o, m, hrec.process_handle, base_address,
                                        bytes(write_buffer))
         IN  [status |-> "ok", mem |-> call.mem]

\* windows.Process.write_memory_pointer: size bytes starting at write_pointer
WindowsWriteMemoryPointer(o, m, hrec, base_address, write_pointer, size) ==
    IF write_pointer.kind = "object" THEN [status |-> "MemEditError", mem |-> m]
    ELSE LET call == WriteProcessMemory(o, m, hrec.process_handle, base_address,
                                        SubSeq(bytes(write_pointer), 1, size))
         IN  [status |-> "ok", mem |-> call.mem]

WriteMemory(o, m, hrec, base_address, write_buffer) ==
    IF backend = "linux" THEN LinuxWriteMemory(m, hrec, base_address, write_buffer)
    ELSE WindowsWriteMemory(o, m, hrec, base_address, write_buffer)

\* /proc: one directory per existing process, named by its pid in decimal
ProcDirs == {ToString(p) : p \in Existing}

\* /proc/<pid>/cmdline: the arguments, each followed by a NUL byte
Cmdline(p) == <<p, 9, 0, 7, 0>>

\* bytes.split(NUL)[0]
RECURSIVE FirstToken(_)
FirstToken(bs) ==
    IF bs = <<>> \/ Head(bs) = 0 THEN <<>>
    ELSE <<Head(bs)>> \o FirstToken(Tail(bs))

\* str.format on a path with one replacement field
Format(template, arg) == IF template = "{}" THEN ToString(arg) ELSE template

\* linux.Process.get_path: the directory component of the path it opens is
\* the replacement field itself, format is never applied to it
LinuxGetPath(hrec) ==
    LET dir == "{}"
    IN  IF dir \in ProcDirs
        THEN [status |-> "ok", none |-> FALSE,
              out |-> FirstToken(Cmdline(CHOOSE p \in Existing : ToString(p) = dir))]
        ELSE [status |-> "ok", none |-> FALSE, out |-> <<>>]

\* windows.Process.get_path: None when GetProcessImageFileNameA returns 0
WindowsGetPath(o, hrec) ==
    IF HandleValid(o, hrec.process_handle)
    THEN [status |-> "ok", none |-> FALSE,
          out |-> FirstToken(Cmdline(o.table[hrec.process_handle]))]
    ELSE [status |-> "ok", none |-> TRUE, out |-> <<>>]

GetPathOf(o, hrec) ==
    IF backend = "linux" THEN LinuxGetPath(hrec) ELSE WindowsGetPath(o, hrec)

\* the pids EnumProcesses has to report, o.visible of them
VisiblePids(o) == [i \in 1..o.visible |-> i]

InitialCapacity == 100
SizeofDWORD == 4

\* Psapi.EnumProcesses(pids_ptr, size, returned_size_ptr): fills as many
\* DWORDs as fit in size bytes and reports the bytes written; 0 on failure
EnumProcesses(o, n, fault) ==
    IF fault THEN [success |-> FALSE, pids |-> [i \in 1..n |-> 0], returned_size |-> 0]
    ELSE LET count == IF o.visible < n THEN o.visible ELSE n
         IN  [success |-> TRUE,
              pids |-> [i \in 1..n |-> IF i <= count THEN VisiblePids(o)[i] ELSE 0],
              returned_size |-> SizeofDWORD * count]

\* n *= 2
NextCapacityLinear(n) == n + InitialCapacity
NextCapacity(n) == n * 2

\* the while True loop; k counts the calls, tried the capacities asked for
RECURSIVE EnumLoop(_, _, _, _, _)
EnumLoop(o, n, fail_at, k, tried) ==
    LET call == EnumProcesses(o, n, fail_at = k)
        num_returned == call.returned_size \div SizeofDWORD
    IN  IF ~call.success
        THEN [status |-> "MemEditError", out |-> <<>>, n |-> n, log |-> Append(tried, n)]
        ELSE IF n = num_returned
        THEN EnumLoop(o, NextCapacity(n), fail_at, k + 1, Append(tried, n))
        ELSE [status |-> "ok", out |-> SubSeq(call.pids, 1, num_returned), n |-> n,
              log |-> Append(tried, n)]

\* windows.Process.list_available_pids
WindowsListAvailablePids(o, fail_at) == EnumLoop(o, InitialCapacity, fail_at, 1, <<>>)

\* list_mapped_regions of the platform's backend
ListMappedRegions(o, hrec, writeable_only) ==
    IF backend = "linux" THEN LinuxListMappedRegions(hrec.pid, vm, writeable_only)
    ELSE WindowsListMappedRegions(HandleValid(o, hrec.process_handle), vm, writeable_only)

---------------------------------------------------------------------------
(* abstract.Process.search_addresses *)

\* compare(needle_buffer, read_buffer) of the chosen mode
Compare(verbatim, needle, read_buffer) ==
    IF verbatim THEN bytes(read_buffer) = bytes(needle)
    ELSE ctypes_equal(needle, read_buffer)

\* the for loop: read_buffer is reused from one address to the next
RECURSIVE SearchAddressesLoop(_, _, _, _, _, _, _, _)
SearchAddressesLoop(o, m, hrec, addresses, needle, verbatim, read_buffer, found) ==
    IF addresses = <<>> THEN [status |-> "ok", out |-> found]
    ELSE LET r == ReadMemory(o, m, hrec, addresses[1], read_buffer)
         IN  IF r.status # "ok" THEN [status |-> r.status, out |-> <<>>]
             ELSE SearchAddressesLoop(o, m, hrec, Tail(addresses), needle, verbatim,
                      r.buf,
                      IF Compare(verbatim, needle, r.buf)
                      THEN Append(found, addresses[1]) ELSE found)

\* read_buffer starts as copy.copy(needle_buffer)
SearchAddresses(o, m, hrec, addresses, needle, verbatim) ==
    SearchAddressesLoop(o, m, hrec, addresses, needle, verbatim, needle, <<>>)

---------------------------------------------------------------------------
(* abstract.Process.deref_struct_pointer *)

PtrSize == 2            \* bytes of a pointer in the model's address space

\* ctypes.c_void_p(): a new, zeroed pointer-sized buffer
c_void_p == Scalar([i \in 1..PtrSize |-> 0])

\* c_void_p.value: None for the null pointer, the address otherwise
VoidPValue(buf) ==
    [none |-> value(bytes(buf)) = 0, v |-> value(bytes(buf))]

\* the list comprehension: base + offset raises TypeError when base is None
RECURSIVE DerefLoop(_, _, _, _, _, _)
DerefLoop(o, m, hrec, base, targets, values) ==
    IF targets = <<>> THEN [status |-> "ok", out |-> values]
    ELSE IF base.none THEN [status |-> "TypeError", out |-> <<>>]
    ELSE LET r == ReadMemory(o, m, hrec, base.v + targets[1].offset, targets[1].buffer)
         IN  IF r.status # "ok" THEN [status |-> r.status, out |-> <<>>]
             ELSE DerefLoop(o, m, hrec, base, Tail(targets), Append(values, r.buf))

\* abstract.Process.deref_struct_pointer
DerefStructPointer(o, m, hrec, base_address, targets) ==
    LET r == ReadMemory(o, m, hrec, base_address, c_void_p)
    IN  IF r.status # "ok" THEN [status |-> r.status, out |-> <<>>]
        ELSE DerefLoop(o, m, hrec, VoidPValue(r.buf), targets, <<>>)

---------------------------------------------------------------------------
(* abstract.Process.search_all_memory *)

\* the exceptions `except OSError` catches
IsOSError(status) == status \in {"OSError", "FileNotFoundError", "ChildProcessError"}

\* search(needle_buffer, region_buffer) of the chosen mode
SearchRegion(verbatim, needle, region_bytes) ==
    IF verbatim THEN search_buffer_verbatim(needle, region_bytes)
    ELSE search_buffer(needle, region_bytes)

\* [offset + start for offset in search(needle_buffer, region_buffer)]
RECURSIVE Rebase(_, _)
Rebase(offsets, start) ==
    IF offsets = <<>> THEN <<>>
    ELSE <<offsets[1] + start>> \o Rebase(Tail(offsets), start)

\* region_buffer = (ctypes.c_byte * (stop - start))(): a new, zeroed array
RegionBuffer(region) == Array([i \in 1..(region[2] - region[1]) |-> 0])

\* self.read_memory(start, region_buffer) of one region
ReadRegion(o, m, hrec, region) == ReadMemory(o, m, hrec, region[1], RegionBuffer(region))

\* the for loop over the regions: an OSError of the read is logged and the
\* region passed over; any other exception leaves the loop
RECURSIVE SearchAllLoop(_, _, _, _, _, _, _, _)
SearchAllLoop(o, m, hrec, regions, needle, verbatim, found, logged) ==
    IF regions = <<>> THEN [status |-> "ok", out |-> found, log |-> logged]
    ELSE LET start == regions[1][1]
             r == ReadRegion(o, m, hrec, regions[1])
             hits == SearchRegion(verbatim, needle, bytes(r.buf))
         IN  IF r.status = "ok"
             THEN SearchAllLoop(o, m, hrec, Tail(regions), needle, verbatim,
                      found \o Rebase(hits, start), logged)
             ELSE IF IsOSError(r.status)
             THEN SearchAllLoop(o, m, hrec, Tail(regions), needle, verbatim,
                      found, Append(logged, regions[1]))
             ELSE [status |-> r.status, out |-> <<>>, log |-> logged]

\* abstract.Process.search_all_memory; an exception of list_mapped_regions
\* is raised outside the try block
SearchAllMemory(o, m, hrec, needle, writeable_only, verbatim) ==
    LET listing == ListMappedRegions(o, hrec, writeable_only)
    IN  IF listing.status # "ok"
        THEN [status |-> listing.status, out |-> <<>>, log |-> <<>>, regions |-> <<>>]
        ELSE LET r == SearchAllLoop(o, m, hrec, listing.out, needle, verbatim, <<>>, <<>>)
             IN  [status |-> r.status, out |-> r.out, log |-> r.log, regions |-> listing.out]

NoRegions == [done |-> FALSE, status |-> "ok", out |-> <<>>]

RegionIdle ==
    /\ backend = "linux"
    /\ vm = <<>>
    /\ regions_result = [w \in BOOLEAN |-> NoRegions]

---------------------------------------------------------------------------
(* Spec: a caller that constructs, uses and closes Process objects *)

\* the inputs the caller draws from
AddrRW == MinAppAddr                    \* first byte of the read-write page
AddrEdge == MinAppAddr + PageSize - 1   \* its last byte: a 2-byte access runs into the hole
AddrHole == MinAppAddr + PageSize       \* the hole
Buffers == {Scalar(<<b>>) : b \in ByteVals} \cup {Array(<<b, 1>>) : b \in ByteVals}
MaxAddresses == 2       \* longest address list given to search_addresses
AddressLists == SeqsUpTo({AddrRW, AddrHole}, MaxAddresses)

\* a new buffer of the shape of buf, zero-initialised as ctypes does
Fresh(buf) == [buf EXCEPT !.bytes = [i \in 1..Len(buf.bytes) |-> 0]]

\* the process a handle reaches, 0 if none
TargetPid(o, hrec) ==
    IF backend = "linux" THEN hrec.pid
    ELSE IF HandleValid(o, hrec.process_handle) THEN o.table[hrec.process_handle] ELSE 0

NoOp ==
    [op |-> "none", cls |-> "Process", h |-> 0, pid |-> 0, addr |-> 0, status |-> "ok",
     live |-> FALSE, live_after |-> FALSE, src |-> NotCtypes, buf |-> NotCtypes,
     addresses |-> <<>>, flag |-> FALSE, out |-> <<>>, log |-> <<>>, os_changed |-> FALSE,
     regions |-> <<>>, targets |-> <<>>, size |-> 0, before |-> <<>>,
     fault |-> 0]

ProcIdle ==
    /\ os = OsInit
    /\ mem = [p \in Existing |-> [a \in MappedAddrs("linux") |-> 0]]
    /\ handles = [h \in 1..MaxHandles |-> NoHandle]
    /\ scope = 0
    /\ cm_opens = 0
    /\ cm_closes = 0
    /\ last = NoOp
    /\ demo = NoDemo

InitWith(slots) ==
    /\ backend \in {"linux", "windows"}
    /\ vm = ProcSnapshot(backend)
    /\ regions_result = [w \in BOOLEAN |-> NoRegions]
    /\ SearchIdle
    /\ os = OsInit
    /\ mem = [p \in Existing |->
                 [a \in MappedAddrs(backend) |-> IF a = MinAppAddr THEN p % 2 ELSE 0]]
    /\ handles = [h \in 1..slots |-> NoHandle]
    /\ scope = 0
    /\ cm_opens = 0
    /\ cm_closes = 0
    /\ last = NoOp
    /\ demo = NoDemo

\* an exception raised inside the with-block leaves the block: the generator
\* of open_process is thrown into at its yield
AfterBody(h, status) == IF scope = h /\ status # "ok" THEN 0 ELSE scope

\* Process(process_id), called directly
Open(cls, process_id) ==
    /\ FreeSlots(handles) # {}
    /\ LET r == Construct(backend, cls, os, process_id)
           h == NextSlot(handles)
           made == [made |-> TRUE, cls |-> cls, pid |-> r.pid,
                    process_handle |-> r.process_handle]
       IN  /\ os' = r.os
           /\ handles' = IF r.status = "ok" THEN [handles EXCEPT ![h] = made] ELSE handles
           /\ last' = [NoOp EXCEPT !.op = "open", !.cls = cls, !.pid = process_id,
                          !.status = r.status,
                          !.h = IF r.status = "ok" THEN h ELSE 0,
                          !.live_after = r.status = "ok" /\ Live(backend, made),
                          !.os_changed = r.os # os]
    /\ UNCHANGED <<mem, scope, cm_opens, cm_closes, backend, vm, regions_result, searchVars, demo>>

\* the close of the platform's backend
CloseOf(hrec, fail_at, stays_stopped) ==
    IF backend = "linux" THEN LinuxClose(os, hrec, fail_at, stays_stopped)
    ELSE WindowsClose(os, hrec)

\* process.close(), called directly on a handle that no with-block owns
Close(h, fail_at, stays_stopped) ==
    /\ handles[h].made
    /\ h # scope
    /\ backend = "windows" => (fail_at = 0 /\ ~stays_stopped)
    /\ LET r == CloseOf(handles[h], fail_at, stays_stopped)
           after == [handles[h] EXCEPT !.pid = r.pid, !.process_handle = r.process_handle]
       IN  /\ os' = r.os
           /\ handles' = [handles EXCEPT ![h] = after]
           /\ last' = [NoOp EXCEPT !.op = "close", !.cls = handles[h].cls, !.h = h,
                          !.pid = TargetPid(os, handles[h]), !.status = r.status,
                          !.live = Live(backend, handles[h]),
                          !.live_after = Live(backend, after),
                          !.log = r.log, !.os_changed = r.os # os,
                          !.fault = fail_at]
    /\ UNCHANGED <<mem, scope, cm_opens, cm_closes, backend, vm, regions_result, searchVars, demo>>

\* with Process.open_process(process_id) as p: -- process = cls(process_id); yield
WithEnter(cls, process_id) ==
    /\ scope = 0
    /\ FreeSlots(handles) # {}
    /\ LET r == Construct(backend, cls, os, process_id)
           h == NextSlot(handles)
           made == [made |-> TRUE, cls |-> cls, pid |-> r.pid,
                    process_handle |-> r.process_handle]
       IN  /\ os' = r.os
           /\ handles' = IF r.status = "ok" THEN [handles EXCEPT ![h] = made] ELSE handles
           /\ scope' = IF r.status = "ok" THEN h ELSE 0
           /\ cm_opens' = IF r.status = "ok" THEN cm_opens + 1 ELSE cm_opens
           /\ last' = [NoOp EXCEPT !.op = "with_enter", !.cls = cls, !.pid = process_id,
                          !.status = r.status,
                          !.h = IF r.status = "ok" THEN h ELSE 0,
                          !.live_after = r.status = "ok" /\ Live(backend, made),
                          !.os_changed = r.os # os]
    /\ UNCHANGED <<mem, cm_closes, backend, vm, regions_result, searchVars, demo>>

\* the with-block ends without an exception: the generator resumes after its
\* yield and runs process.close()
WithExit(fail_at, stays_stopped) ==
    /\ scope # 0
    /\ backend = "windows" => (fail_at = 0 /\ ~stays_stopped)
    /\ LET h == scope
           r == CloseOf(handles[h], fail_at, stays_stopped)
           after == [handles[h] EXCEPT !.pid = r.pid, !.process_handle = r.process_handle]
       IN  /\ os' = r.os
           /\ handles' = [handles EXCEPT ![h] = after]
           /\ last' = [NoOp EXCEPT !.op = "with_exit", !.cls = handles[h].cls, !.h = h,
                          !.pid = TargetPid(os, handles[h]), !.status = r.status,
                          !.live = Live(backend, handles[h]),
                          !.live_after = Live(backend, after),
                          !.log = r.log, !.os_changed = r.os # os,
                          !.fault = fail_at]
    /\ scope' = 0
    /\ cm_closes' = cm_closes + 1
    /\ UNCHANGED <<mem, cm_opens, backend, vm, regions_result, searchVars, demo>>

\* p.read_memory(base_address, read_buffer)
Read(h, base_address, read_buffer) ==
    /\ handles[h].made
    /\ LET r == ReadMemory(os, mem, handles[h], base_address, read_buffer)
       IN  /\ last' = [NoOp EXCEPT !.op = "read", !.cls = handles[h].cls, !.h = h,
                          !.pid = TargetPid(os, handles[h]), !.addr = base_address,
                          !.status = r.status,
                          !.live = Live(backend, handles[h]),
                          !.live_after = Live(backend, handles[h]),
                          !.src = read_buffer, !.buf = r.buf]
           /\ scope' = AfterBody(h, r.status)
    /\ UNCHANGED <<os, mem, handles, cm_opens, cm_closes, backend, vm, regions_result,
                   searchVars, demo>>

\* p.write_memory(base_address, write_buffer)
Write(h, base_address, write_buffer) ==
    /\ handles[h].made
    /\ LET r == WriteMemory(os, mem, handles[h], base_address, write_buffer)
       IN  /\ mem' = r.mem
           /\ last' = [NoOp EXCEPT !.op = "write", !.cls = handles[h].cls, !.h = h,
                          !.pid = TargetPid(os, handles[h]), !.addr = base_address,
                          !.status = r.status,
                          !.live = Live(backend, handles[h]),
                          !.live_after = Live(backend, handles[h]),
                          !.src = write_buffer, !.buf = write_buffer]
           /\ scope' = AfterBody(h, r.status)
    /\ UNCHANGED <<os, handles, cm_opens, cm_closes, backend, vm, regions_result, searchVars, demo>>

\* Process.list_available_pids(), the static method of windows.Process
ListPids(fail_at) ==
    /\ backend = "windows"
    /\ LET r == WindowsListAvailablePids(os, fail_at)
       IN  last' = [NoOp EXCEPT !.op = "list_available_pids", !.status = r.status,
                       !.out = r.out, !.size = r.n, !.log = r.log, !.fault = fail_at]
    /\ UNCHANGED <<os, mem, handles, scope, cm_opens, cm_closes, regionVars, searchVars, demo>>

\* p.get_path()
GetPath(h) ==
    /\ handles[h].made
    /\ LET r == GetPathOf(os, handles[h])
       IN  /\ last' = [NoOp EXCEPT !.op = "get_path", !.cls = handles[h].cls, !.h = h,
                          !.pid = TargetPid(os, handles[h]),
                          !.status = r.status,
                          !.live = Live(backend, handles[h]),
                          !.live_after = Live(backend, handles[h]),
                          !.flag = r.none, !.out = r.out]
           /\ scope' = AfterBody(h, r.status)
    /\ UNCHANGED <<os, mem, handles, cm_opens, cm_closes, backend, vm, regions_result,
                   searchVars, demo>>

\* p.write_memory_pointer(base_address, write_pointer, size), on a handle of
\* the class the backend itself defines the method for
WritePointer(h, base_address, write_pointer, size) ==
    /\ handles[h].made
    /\ handles[h].cls = "Process"
    /\ "write_memory_pointer" \in Defines(backend, "Process")
    /\ LET r == WindowsWriteMemoryPointer(os, mem, handles[h], base_address,
                                          write_pointer, size)
       IN  /\ mem' = r.mem
           /\ last' = [NoOp EXCEPT !.op = "write_pointer", !.cls = handles[h].cls, !.h = h,
                          !.pid = TargetPid(os, handles[h]), !.addr = base_address,
                          !.status = r.status,
                          !.live = Live(backend, handles[h]),
                          !.live_after = Live(backend, handles[h]),
                          !.src = write_pointer, !.size = size, !.before = mem]
           /\ scope' = AfterBody(h, r.status)
    /\ UNCHANGED <<os, handles, cm_opens, cm_closes, backend, vm, regions_result, searchVars, demo>>

\* p.write_memory(a, buffer) followed at once by p.read_memory(a, buffer2),
\* buffer2 a new buffer of the same shape
WriteThenRead(h, base_address, write_buffer) ==
    /\ handles[h].made
    /\ LET w == WriteMemory(os, mem, handles[h], base_address, write_buffer)
           r == IF w.status = "ok"
                THEN ReadMemory(os, w.mem, handles[h], base_address, Fresh(write_buffer))
                ELSE [status |-> w.status, buf |-> Fresh(write_buffer)]
       IN  /\ mem' = w.mem
           /\ last' = [NoOp EXCEPT !.op = "write_read", !.cls = handles[h].cls, !.h = h,
                          !.pid = TargetPid(os, handles[h]), !.addr = base_address,
                          !.status = r.status,
                          !.live = Live(backend, handles[h]),
                          !.live_after = Live(backend, handles[h]),
                          !.src = write_buffer, !.buf = r.buf]
           /\ scope' = AfterBody(h, r.status)
    /\ UNCHANGED <<os, handles, cm_opens, cm_closes, backend, vm, regions_result, searchVars, demo>>

\* p.list_mapped_regions(writeable_only)
ListRegions(h, writeable_only) ==
    /\ handles[h].made
    /\ LET r == ListMappedRegions(os, handles[h], writeable_only)
       IN  /\ last' = [NoOp EXCEPT !.op = "list", !.cls = handles[h].cls, !.h = h,
                          !.pid = TargetPid(os, handles[h]), !.status = r.status,
                          !.live = Live(backend, handles[h]),
                          !.live_after = Live(backend, handles[h]),
                          !.flag = writeable_only, !.out = r.out]
           /\ scope' = AfterBody(h, r.status)
    /\ UNCHANGED <<os, mem, handles, cm_opens, cm_closes, backend, vm, regions_result,
                   searchVars, demo>>

\* p.search_addresses(addresses, needle_buffer, verbatim)
SearchAddr(h, addresses, needle, verbatim) ==
    /\ handles[h].made
    /\ LET r == SearchAddresses(os, mem, handles[h], addresses, needle, verbatim)
       IN  /\ last' = [NoOp EXCEPT !.op = "search", !.cls = handles[h].cls, !.h = h,
                          !.pid = TargetPid(os, handles[h]), !.status = r.status,
                          !.live = Live(backend, handles[h]),
                          !.live_after = Live(backend, handles[h]),
                          !.src = needle, !.addresses = addresses,
                          !.flag = verbatim, !.out = r.out]
           /\ scope' = AfterBody(h, r.status)
    /\ UNCHANGED <<os, mem, handles, cm_opens, cm_closes, backend, vm, regions_result,
                   searchVars, demo>>

\* p.search_all_memory(needle_buffer, writeable_only, verbatim)
SearchAll(h, needle, writeable_only, verbatim) ==
    /\ handles[h].made
    /\ LET r == SearchAllMemory(os, mem, handles[h], needle, writeable_only, verbatim)
       IN  /\ last' = [NoOp EXCEPT !.op = "search_all", !.cls = handles[h].cls, !.h = h,
                          !.pid = TargetPid(os, handles[h]), !.status = r.status,
                          !.live = Live(backend, handles[h]),
                          !.live_after = Live(backend, handles[h]),
                          !.src = needle, !.flag = verbatim,
                          !.regions = r.regions, !.out = r.out, !.log = r.log]
           /\ scope' = AfterBody(h, r.status)
    /\ UNCHANGED <<os, mem, handles, cm_opens, cm_closes, backend, vm, regions_result,
                   searchVars, demo>>

\* p.deref_struct_pointer(base_address, targets)
Deref(h, base_address, targets) ==
    /\ handles[h].made
    /\ LET r == DerefStructPointer(os, mem, handles[h], base_address, targets)
       IN  /\ last' = [NoOp EXCEPT !.op = "deref", !.cls = handles[h].cls, !.h = h,
                          !.pid = TargetPid(os, handles[h]), !.addr = base_address,
                          !.status = r.status,
                          !.live = Live(backend, handles[h]),
                          !.live_after = Live(backend, handles[h]),
                          !.targets = targets, !.out = r.out]
           /\ scope' = AfterBody(h, r.status)
    /\ UNCHANGED <<os, mem, handles, cm_opens, cm_closes, backend, vm, regions_result,
                   searchVars, demo>>

\* Spec: two handle slots, every pid, one buffer and one address list
Init == InitWith(MaxHandles)

Next ==
    \/ \E cls \in Classes(backend), p \in Pids : Open(cls, p)
    \/ \E h \in DOMAIN handles, k \in 0..Len(CloseSteps), s \in BOOLEAN : Close(h, k, s)
    \/ \E cls \in Classes(backend), p \in Pids : WithEnter(cls, p)
    \/ \E k \in 0..Len(CloseSteps), s \in BOOLEAN : WithExit(k, s)
    \/ \E h \in DOMAIN handles, a \in {AddrRW, AddrHole} : Read(h, a, Scalar(<<1>>))
    \/ \E h \in DOMAIN handles, a \in {AddrRW, AddrHole} : Write(h, a, Scalar(<<1>>))
    \/ \E h \in DOMAIN handles, a \in {AddrRW, AddrHole} : WriteThenRead(h, a, Scalar(<<1>>))
    \/ \E h \in DOMAIN handles, w \in BOOLEAN : ListRegions(h, w)
    \/ \E h \in DOMAIN handles, v \in BOOLEAN :
           SearchAddr(h, <<AddrRW, AddrHole>>, Scalar(<<1>>), v)
    \/ \E h \in DOMAIN handles : GetPath(h)

Spec == Init /\ [][Next]_vars

\* MemSpec: one handle slot on pid 1, every buffer, address and address list
MemInit == InitWith(1)

MemNext ==
    \/ \E cls \in Classes(backend) : Open(cls, 1)
    \/ \E h \in DOMAIN handles : Close(h, 0, FALSE)
    \/ \E cls \in Classes(backend) : WithEnter(cls, 1)
    \/ WithExit(0, FALSE)
    \/ \E h \in DOMAIN handles, a \in {AddrRW, AddrEdge, AddrHole},
           b \in Buffers \cup {NotCtypes} : Read(h, a, b)
    \/ \E h \in DOMAIN handles, a \in {AddrRW, AddrEdge, AddrHole},
           b \in Buffers \cup {NotCtypes} : Write(h, a, b)
    \/ \E h \in DOMAIN handles, a \in {AddrRW, AddrEdge, AddrHole}, b \in Buffers :
           WriteThenRead(h, a, b)
    \/ \E h \in DOMAIN handles, w \in BOOLEAN : ListRegions(h, w)
    \/ \E h \in DOMAIN handles, as \in AddressLists, n \in Buffers, v \in BOOLEAN :
           SearchAddr(h, as, n, v)
    \/ \E h \in DOMAIN handles, n \in Buffers, w \in BOOLEAN, v \in BOOLEAN :
           SearchAll(h, n, w, v)
    \/ \E h \in DOMAIN handles, a \in {AddrRW, AddrEdge, AddrHole}, b \in Buffers :
           \E n \in 0..sizeof(b) : WritePointer(h, a, b, n)

MemSpec == MemInit /\ [][MemNext]_vars

---------------------------------------------------------------------------
(* ShmSpec: main.py's write_to_shared_memory, called again and again by    *)
(* the main loop on one recorded range, beside the consumer that owns the  *)
(* block.  The block is a start marker, a control word, the payload and an *)
(* end marker; markers and control word are WordSize bytes each.           *)

WordSize == 2           \* bytes of a marker and of the control word
MaxRounds == 3          \* calls of write_to_shared_memory the main loop makes

ShmPid == 1
ShmStart == MinAppAddr                  \* memory_range[1]
ShmEnd == MaxAppAddr - WordSize         \* memory_range[2]
BeginningAddr == ShmStart + 2 * WordSize

MagicStart == [i \in 1..WordSize |-> 1]
MagicEnd == [i \in 1..WordSize |-> 1]

\* the block's process: the whole application range is one read-write region
ShmSnapshot(b) ==
    <<[size |-> AppPages,
       attr |-> IF b = "linux" THEN <<"r", "w", "-", "p">>
                ELSE WinAttr(MEM_PRIVATE, MEM_COMMIT, PAGE_READWRITE)]>>

ShmMemory(control) ==
    [a \in MinAppAddr..(MaxAppAddr - 1) |->
        IF a < ShmStart + WordSize THEN MagicStart[a - ShmStart + 1]
        ELSE IF a = ShmStart + WordSize THEN control
        ELSE IF a >= ShmEnd THEN MagicEnd[a - ShmEnd + 1]
        ELSE 0]

\* numpy arrays: itemsize bytes per element, size = number of elements
InputArrays ==
    {[itemsize |-> 1, bytes |-> <<1>>], [itemsize |-> 1, bytes |-> <<1, 1>>],
     [itemsize |-> 1, bytes |-> [i \in 1..(ShmEnd - BeginningAddr + 1) |-> 1]],
     [itemsize |-> 2, bytes |-> <<1, 1>>]}
ArraySize(input_array) == Len(input_array.bytes) \div input_array.itemsize

\* ctypes.c_ulong(): one word on Windows, two on Linux
c_ulong == Scalar([i \in 1..(IF backend = "windows" THEN WordSize ELSE 2 * WordSize) |-> 0])

ShmInit ==
    /\ backend \in {"linux", "windows"}
    /\ vm = ShmSnapshot(backend)
    /\ regions_result = [w \in BOOLEAN |-> NoRegions]
    /\ SearchIdle
    /\ os = OsInit
    /\ \E control \in {0, 128} :
           mem = [p \in Existing |-> IF p = ShmPid THEN ShmMemory(control) ELSE ShmMemory(0)]
    /\ handles = [h \in 1..1 |-> NoHandle]
    /\ scope = 0
    /\ cm_opens = 0
    /\ cm_closes = 0
    /\ last = NoOp
    /\ demo = NoDemo

\* line 39: with Process.open_process(memory_range[0]) as p
ProducerOpen(input_array) ==
    /\ demo.pc = "idle"
    /\ cm_opens < MaxRounds
    /\ LET r == Construct(backend, "Process", os, ShmPid)
           made == [made |-> TRUE, cls |-> "Process", pid |-> r.pid,
                    process_handle |-> r.process_handle]
       IN  /\ os' = r.os
           /\ handles' = IF r.status = "ok" THEN [handles EXCEPT ![1] = made] ELSE handles
           /\ scope' = IF r.status = "ok" THEN 1 ELSE 0
           /\ cm_opens' = IF r.status = "ok" THEN cm_opens + 1 ELSE cm_opens
           /\ last' = [NoOp EXCEPT !.op = "with_enter", !.pid = ShmPid, !.status = r.status,
                          !.h = IF r.status = "ok" THEN 1 ELSE 0,
                          !.live_after = r.status = "ok" /\ Live(backend, made),
                          !.os_changed = r.os # os]
           /\ demo' = [demo EXCEPT !.pc = IF r.status = "ok" THEN "opened" ELSE "raised",
                                   !.input = input_array, !.control = 0]
    /\ UNCHANGED <<mem, cm_closes, regionVars, searchVars>>

\* lines 49-50: the control word is 0 and the array fits
ProducerCheck ==
    /\ demo.pc = "opened"
    /\ LET r == ReadMemory(os, mem, handles[scope], ShmStart + WordSize, c_ulong)
           fits == ShmEnd - BeginningAddr >= ArraySize(demo.input) * demo.input.itemsize
       IN  /\ last' = [NoOp EXCEPT !.op = "read", !.h = scope, !.pid = ShmPid,
                          !.addr = ShmStart + WordSize, !.status = r.status,
                          !.live = TRUE, !.live_after = TRUE, !.src = c_ulong, !.buf = r.buf]
           /\ scope' = AfterBody(scope, r.status)
           /\ demo' = [demo EXCEPT
                         !.pc = IF r.status # "ok" THEN "raised"
                                ELSE IF value(bytes(r.buf)) = 0 /\ fits THEN "writing"
                                ELSE "skip",
                         !.control = value(bytes(r.buf))]
    /\ UNCHANGED <<os, mem, handles, cm_opens, cm_closes, regionVars, searchVars>>

\* line 53: p.write_memory_pointer(beginning_addr, pointer to the data, input_array.size)
ProducerPayload ==
    /\ demo.pc = "writing"
    /\ "write_memory_pointer" \in Defines(backend, "Process")
    /\ LET r == WindowsWriteMemoryPointer(os, mem, handles[scope], BeginningAddr,
                                          Array(demo.input.bytes), ArraySize(demo.input))
       IN  /\ mem' = r.mem
           /\ last' = [NoOp EXCEPT !.op = "write_pointer", !.h = scope, !.pid = ShmPid,
                          !.addr = BeginningAddr, !.status = r.status,
                          !.live = TRUE, !.live_after = TRUE,
                          !.src = Array(demo.input.bytes), !.size = ArraySize(demo.input),
                          !.before = mem]
           /\ scope' = AfterBody(scope, r.status)
           /\ demo' = [demo EXCEPT !.pc = IF r.status = "ok" THEN "payload_done" ELSE "raised"]
    /\ UNCHANGED <<os, handles, cm_opens, cm_closes, regionVars, searchVars>>

\* line 56: p.write_memory(memory_range[1] + 4, ctypes.c_uint8(128))
ProducerFlag ==
    /\ demo.pc = "payload_done"
    /\ LET r == WriteMemory(os, mem, handles[scope], ShmStart + WordSize, Scalar(<<128>>))
       IN  /\ mem' = r.mem
           /\ last' = [NoOp EXCEPT !.op = "write", !.h = scope, !.pid = ShmPid,
                          !.addr = ShmStart + WordSize, !.status = r.status,
                          !.live = TRUE, !.live_after = TRUE,
                          !.src = Scalar(<<128>>), !.buf = Scalar(<<128>>)]
           /\ scope' = AfterBody(scope, r.status)
           /\ demo' = [demo EXCEPT !.pc = IF r.status = "ok" THEN "flagged" ELSE "raised"]
    /\ UNCHANGED <<os, handles, cm_opens, cm_closes, regionVars, searchVars>>

\* the with-block ends: open_process closes p, and the name p is dropped
ProducerExit ==
    /\ demo.pc \in {"flagged", "skip"}
    /\ LET r == CloseOf(handles[scope], 0, FALSE)
       IN  /\ os' = r.os
           /\ last' = [NoOp EXCEPT !.op = "with_exit", !.h = scope, !.pid = ShmPid,
                          !.status = r.status, !.live = TRUE, !.log = r.log,
                          !.os_changed = r.os # os]
           /\ demo' = [demo EXCEPT !.pc = IF r.status = "ok" THEN "idle" ELSE "raised"]
    /\ handles' = [handles EXCEPT ![scope] = NoHandle]
    /\ scope' = 0
    /\ cm_closes' = cm_closes + 1
    /\ UNCHANGED <<mem, cm_opens, regionVars, searchVars>>

\* the consumer finds the control word nonzero and starts using the payload
ConsumerTake ==
    /\ demo.consumer = "waiting"
    /\ value(Peek(mem, ShmPid, ShmStart + WordSize, WordSize)) # 0
    /\ demo' = [demo EXCEPT !.consumer = "owns"]
    /\ UNCHANGED <<searchVars, regionVars, procVars>>

\* the consumer is done with the payload and sets the control word to 0
ConsumerRelease ==
    /\ demo.consumer = "owns"
    /\ mem' = Poke(mem, ShmPid, ShmStart + WordSize, [i \in 1..WordSize |-> 0])
    /\ demo' = [demo EXCEPT !.consumer = "waiting"]
    /\ UNCHANGED <<os, handles, scope, cm_opens, cm_closes, last, regionVars, searchVars>>

ShmNext ==
    \/ \E input_array \in InputArrays : ProducerOpen(input_array)
    \/ ProducerCheck
    \/ ProducerPayload
    \/ ProducerFlag
    \/ ProducerExit
    \/ ConsumerTake
    \/ ConsumerRelease

ShmSpec == ShmInit /\ [][ShmNext]_vars

---------------------------------------------------------------------------
(* WalkSpec: windows list_mapped_regions on every snapshot, through a valid *)
(* handle and through one the system refuses                                *)

WalkInit ==
    /\ backend = "windows"
    /\ vm \in Snapshots("windows")
    /\ regions_result = [w \in BOOLEAN |-> NoRegions]
    /\ SearchIdle
    /\ ProcIdle

\* p.list_mapped_regions(writeable_only)
Walk(writeable_only, handle_valid) ==
    /\ LET r == WindowsListMappedRegions(handle_valid, vm, writeable_only)
       IN  last' = [NoOp EXCEPT !.op = "list_mapped_regions", !.flag = writeable_only,
                       !.status = r.status, !.out = r.out,
                       !.fault = IF handle_valid THEN 0 ELSE 1]
    /\ UNCHANGED <<os, mem, handles, scope, cm_opens, cm_closes, regionVars, searchVars, demo>>

WalkNext == \E writeable_only \in BOOLEAN, handle_valid \in BOOLEAN :
                Walk(writeable_only, handle_valid)

WalkSpec == WalkInit /\ [][WalkNext]_vars

---------------------------------------------------------------------------
(* EnumSpec: list_available_pids on Windows for every number of visible *)
(* processes, with a failure injected at any one call or none           *)

MaxVisible == 401       \* most processes EnumProcesses has to report
MaxCalls == 4           \* latest call of EnumProcesses that can be made to fail

EnumInit ==
    /\ backend = "windows"
    /\ vm = ProcSnapshot("windows")
    /\ regions_result = [w \in BOOLEAN |-> NoRegions]
    /\ SearchIdle
    /\ \E P \in 0..MaxVisible : os = [OsInit EXCEPT !.visible = P]
    /\ mem = [p \in Existing |-> [a \in MappedAddrs("windows") |-> 0]]
    /\ handles = [h \in 1..1 |-> NoHandle]
    /\ scope = 0
    /\ cm_opens = 0
    /\ cm_closes = 0
    /\ last = NoOp
    /\ demo = NoDemo

EnumNext == \E k \in 0..MaxCalls : ListPids(k)

EnumSpec == EnumInit /\ [][EnumNext]_vars

---------------------------------------------------------------------------
(* EqualSpec: ctypes_equal applied to every pair of bounded ctypes values *)

MaxFields == 2          \* most fields declared by a record

UByteVals == {CScalar("c_ubyte", v) : v \in ByteVals}
ScalarVals == UByteVals \cup {CScalar("c_ushort", v) : v \in ByteVals}
ArrayVals == {CArray(es) : es \in SeqsUpTo(UByteVals, 2) \ {<<>>}}
FlatRecords ==
    {CStruct(fs) : fs \in SeqsUpTo(UByteVals \cup {CArray(<<x>>) : x \in UByteVals}, MaxFields)}
NestedVals ==
    {CStruct(<<r>>) : r \in FlatRecords} \cup {CArray(<<r>>) : r \in FlatRecords}
CValues == ScalarVals \cup ArrayVals \cup FlatRecords \cup NestedVals

EqualInit ==
    /\ SearchIdle
    /\ RegionIdle
    /\ os = OsInit
    /\ mem = [p \in Existing |-> [a \in MappedAddrs("linux") |-> 0]]
    /\ handles = [h \in 1..MaxHandles |-> NoHandle]
    /\ scope = 0
    /\ cm_opens = 0
    /\ cm_closes = 0
    /\ \E a \in CValues, b \in CValues : last = [NoOp EXCEPT !.src = a, !.buf = b]
    /\ demo = NoDemo

\* ctypes_equal(a, b)
Equal ==
    /\ last.op = "none"
    /\ LET r == ctypes_equal_rec(last.src, last.buf)
       IN  last' = [last EXCEPT !.op = "ctypes_equal",
                       !.status = IF r.raised THEN "AttributeError" ELSE "ok",
                       !.flag = r.out]
    /\ UNCHANGED <<os, mem, handles, scope, cm_opens, cm_closes, regionVars, searchVars, demo>>

EqualNext == Equal

EqualSpec == EqualInit /\ [][EqualNext]_vars

---------------------------------------------------------------------------
(* DerefSpec: deref_struct_pointer on targets whose read-write page holds a *)
(* pointer and whose read-execute page holds the struct                     *)

MaxTargets == 2         \* longest field table given to deref_struct_pointer

AddrRX == MinAppAddr + 2 * PageSize     \* first byte of the read-execute page
PointerVals == {0, AddrRW, AddrHole, AddrRX}

TargetTables ==
    SeqsUpTo([offset : {0, 1, MinAppAddr}, buffer : {Scalar(<<1>>), Array(<<1, 1>>)}],
             MaxTargets)

\* a target's memory: the pointer P at AddrRW, little endian; d and 1 at AddrRX
DerefMemory(P, d) ==
    [a \in MappedAddrs(backend) |->
        IF a = AddrRW THEN P
        ELSE IF a = AddrRX THEN d
        ELSE IF a = AddrRX + 1 THEN 1
        ELSE 0]

DerefInit ==
    /\ backend \in {"linux", "windows"}
    /\ vm = ProcSnapshot(backend)
    /\ regions_result = [w \in BOOLEAN |-> NoRegions]
    /\ SearchIdle
    /\ os = OsInit
    /\ \E P \in PointerVals, d \in ByteVals : mem = [p \in Existing |-> DerefMemory(P, d)]
    /\ handles = [h \in 1..1 |-> NoHandle]
    /\ scope = 0
    /\ cm_opens = 0
    /\ cm_closes = 0
    /\ last = NoOp
    /\ demo = NoDemo

DerefNext ==
    \/ \E cls \in Classes(backend) : Open(cls, 1)
    \/ \E h \in DOMAIN handles : Close(h, 0, FALSE)
    \/ \E h \in DOMAIN handles, a \in {AddrRW, AddrHole}, t \in TargetTables :
           Deref(h, a, t)

DerefSpec == DerefInit /\ [][DerefNext]_vars

---------------------------------------------------------------------------
(* RegionSpec: list_mapped_regions of a live handle on every snapshot *)

RegionInit ==
    /\ backend \in {"linux", "windows"}
    /\ vm \in Snapshots(backend)
    /\ regions_result = [w \in BOOLEAN |-> NoRegions]
    /\ SearchIdle
    /\ ProcIdle

ListMappedRegionsLinux(writeable_only) ==
    /\ backend = "linux"
    /\ ~regions_result[writeable_only].done
    /\ LET r == LinuxListMappedRegions(1, vm, writeable_only)
       IN  regions_result' = [regions_result EXCEPT ![writeable_only] =
                                 [done |-> TRUE, status |-> r.status, out |-> r.out]]
    /\ UNCHANGED <<backend, vm, searchVars, procVars, demo>>

ListMappedRegionsWindows(writeable_only) ==
    /\ backend = "windows"
    /\ ~regions_result[writeable_only].done
    /\ LET r == WindowsListMappedRegions(TRUE, vm, writeable_only)
       IN  regions_result' = [regions_result EXCEPT ![writeable_only] =
                                 [done |-> TRUE, status |-> r.status, out |-> r.out]]
    /\ UNCHANGED <<backend, vm, searchVars, procVars, demo>>

RegionNext ==
    \E writeable_only \in BOOLEAN :
        \/ ListMappedRegionsLinux(writeable_only)
        \/ ListMappedRegionsWindows(writeable_only)

RegionSpec == RegionInit /\ [][RegionNext]_vars

---------------------------------------------------------------------------
(* SearchSpec: the two searches applied to every bounded haystack/needle *)

Haystacks == SeqsUpTo(ByteVals, MaxHaystack)
Needles ==
    {Scalar(bs) : bs \in {s \in SeqsUpTo(ByteVals, MaxNeedle) : Len(s) \in {1, 2}}}
    \cup {Array(bs) : bs \in {s \in SeqsUpTo(ByteVals, MaxNeedle) : Len(s) >= 1}}

SearchInit ==
    /\ haystack_buffer \in Haystacks
    /\ needle_buffer \in Needles
    /\ found_verbatim = NotRun
    /\ found_structural = NotRun
    /\ RegionIdle
    /\ ProcIdle

SearchVerbatim ==
    /\ ~found_verbatim.done
    /\ found_verbatim' = [done |-> TRUE,
                          out |-> search_buffer_verbatim(needle_buffer, haystack_buffer)]
    /\ UNCHANGED <<haystack_buffer, needle_buffer, found_structural, regionVars, procVars, demo>>

SearchStructural ==
    /\ ~found_structural.done
    /\ found_structural' = [done |-> TRUE,
                            out |-> search_buffer(needle_buffer, haystack_buffer)]
    /\ UNCHANGED <<haystack_buffer, needle_buffer, found_verbatim, regionVars, procVars, demo>>

SearchNext == SearchVerbatim \/ SearchStructural

SearchSpec == SearchInit /\ [][SearchNext]_vars

---------------------------------------------------------------------------
(* C3: for every haystack and non-empty needle, search_buffer_verbatim     *)
(* returns, strictly increasing (so without repetition), exactly the       *)
(* offsets at which the needle's bytes occur, overlapping ones included.   *)
C3_VerbatimExact ==
    (found_verbatim.done /\ sizeof(needle_buffer) >= 1) =>
        /\ StrictlyIncreasing(found_verbatim.out)
        /\ Range(found_verbatim.out) =
               {o \in 0..Len(haystack_buffer) :
                    MatchAt(haystack_buffer, bytes(needle_buffer), o)}

\* an overlapping pair of hits was found: hits at o and o + 1 for a 2-byte needle
C3_Witness ==
    /\ found_verbatim.done
    /\ sizeof(needle_buffer) = 2
    /\ \E i \in 1..Len(found_verbatim.out) - 1 :
           found_verbatim.out[i + 1] = found_verbatim.out[i] + 1

(* C4: for a needle without padding, search_buffer and                     *)
(* search_buffer_verbatim return the same offsets, the offset              *)
(* len(haystack) - sizeof(needle) included.                                *)
C4_StructuralAgreesWithVerbatim ==
    (found_verbatim.done /\ found_structural.done) =>
        found_structural.out = found_verbatim.out

\* a list of (start, stop) pairs in increasing address order, each non-empty
RegionsOrdered(rs) ==
    /\ \A i \in 1..Len(rs) : rs[i][1] < rs[i][2]
    /\ \A i \in 1..Len(rs) : \A j \in 1..Len(rs) : i < j => rs[i][2] <= rs[j][1]

(* C10: for one snapshot of the address space, every region returned by    *)
(* list_mapped_regions(writeable_only=True) is returned by                 *)
(* list_mapped_regions(writeable_only=False), and both lists are in        *)
(* increasing address order with start < stop, on both backends.           *)
C10_WriteableSubset ==
    (regions_result[TRUE].done /\ regions_result[FALSE].done) =>
        /\ regions_result[TRUE].status = "ok" /\ regions_result[FALSE].status = "ok"
        /\ Range(regions_result[TRUE].out) \subseteq Range(regions_result[FALSE].out)
        /\ RegionsOrdered(regions_result[TRUE].out)
        /\ RegionsOrdered(regions_result[FALSE].out)

\* both calls were made on a snapshot where the writeable-only list is a
\* non-empty, strict part of the full list
C10_Witness ==
    /\ regions_result[TRUE].done /\ regions_result[FALSE].done
    /\ Len(regions_result[TRUE].out) >= 1
    /\ Len(regions_result[FALSE].out) > Len(regions_result[TRUE].out)

---------------------------------------------------------------------------
(* Claims checked under Spec and MemSpec *)

(* C1: with open_process, close is called once on every way out of the     *)
(* with-block, an operation raising inside it included: whenever no        *)
(* with-block is running, the close calls made by open_process equal its   *)
(* successful constructions.                                               *)
C1_ScopedCloseOnEveryExit == scope = 0 => cm_closes = cm_opens

(* C2: on each backend, write_memory of a buffer at a mapped writable      *)
(* address through a live handle, followed at once by read_memory into a   *)
(* buffer of the same shape, succeeds and reads back the bytes written.    *)
C2_WriteReadRoundTrip ==
    (last.op = "write_read" /\ last.live /\ RangeWritable(last.addr, sizeof(last.src))) =>
        /\ last.status = "ok"
        /\ bytes(last.buf) = bytes(last.src)

\* the bytes now in the target at address a match the needle of the last search
TargetMatches(a) ==
    /\ RangeMapped(a, sizeof(last.src))
    /\ Compare(last.flag, last.src,
               [last.src EXCEPT !.bytes = Peek(mem, last.pid, a, sizeof(last.src))])

(* C5: search_addresses returns the supplied addresses, in order, at which *)
(* the target's current bytes match the needle under the requested mode,   *)
(* and no other; an address whose read delivered nothing is not reported.  *)
C5_SearchAddressesExact ==
    (last.op = "search" /\ last.live /\ last.status = "ok") =>
        last.out = SelectSeq(last.addresses, TargetMatches)

(* C6: read_memory through a live handle at a range that is not mapped     *)
(* fails with an error on each backend; it never returns normally.         *)
C6_UnmappedReadFails ==
    (/\ last.op = "read"
     /\ last.live
     /\ last.src.kind # "object"
     /\ ~RangeMapped(last.addr, sizeof(last.src))) =>
        last.status # "ok"

(* C7: constructing a Process for a pid that does not exist fails with     *)
(* MemEditError, makes no handle and leaves the operating system as it     *)
(* was; and constructing one for an existing pid nobody is attached to     *)
(* succeeds.                                                               *)
C7_FailedOpenIsAttachError ==
    /\ (last.op \in {"open", "with_enter"} /\ last.pid \notin Existing) =>
           /\ last.status = "MemEditError"
           /\ last.h = 0
           /\ ~last.os_changed
    /\ (last.op \in {"open", "with_enter"} /\ last.pid \in Existing /\ last.status # "ok") =>
           (backend = "linux" /\ ~last.os_changed /\ os.tracer[last.pid])

(* C8: a handle is live or closed; a close that returns leaves it closed,  *)
(* no operation makes a closed handle live, and read_memory, write_memory  *)
(* and list_mapped_regions on a closed handle all fail with an error.      *)
C8_ClosedHandleOpsFail ==
    /\ (last.op \in {"close", "with_exit"} /\ last.status = "ok") => ~last.live_after
    /\ (last.h # 0 /\ last.op \notin {"open", "with_enter"} /\ ~last.live) => ~last.live_after
    /\ (last.op \in {"read", "write", "list"} /\ last.h # 0 /\ ~last.live) =>
           last.status # "ok"

(* C9: on Linux a close that returns has made exactly the calls kill       *)
(* SIGSTOP, waitpid, ptrace PTRACE_DETACH, kill SIGCONT, in this order;    *)
(* the target is then not traced and running and the handle's pid is None. *)
C9_LinuxCloseOrder ==
    (backend = "linux" /\ last.op \in {"close", "with_exit"} /\ last.status = "ok") =>
        /\ last.log = <<"SIGSTOP", "waitpid", "PTRACE_DETACH", "SIGCONT">>
        /\ ~os.tracer[last.pid]
        /\ os.run[last.pid] = "running"
        /\ handles[last.h].pid = 0

\* a close of a live Linux handle returned
C9_Witness ==
    /\ backend = "linux"
    /\ last.op = "close"
    /\ last.status = "ok"
    /\ last.live
    /\ last.pid \in Existing

\* what search_all_memory is to return for the regions it enumerated
RECURSIVE ExpectedFound(_, _, _)
ExpectedFound(regions, needle, verbatim) ==
    IF regions = <<>> THEN <<>>
    ELSE LET start == regions[1][1]
             size == regions[1][2] - regions[1][1]
             hits == SearchRegion(verbatim, needle, Peek(mem, last.pid, start, size))
         IN  (IF RangeMapped(start, size)
              THEN Rebase(hits, start) ELSE <<>>)
             \o ExpectedFound(Tail(regions), needle, verbatim)

\* the enumerated regions that could not be read
Unreadable(regions) == SelectSeq(regions, LAMBDA r : ~RangeMapped(r[1], r[2] - r[1]))

(* C11: search_all_memory through a live handle returns normally even when *)
(* regions fail to read; every region that failed to read is logged and    *)
(* contributes nothing, and the result is the concatenation, in region     *)
(* order, of region_start + offset for the matches of the regions read.    *)
C11_SearchAllSkipsFailedRegions ==
    (last.op = "search_all" /\ last.live) =>
        /\ last.status = "ok"
        /\ last.log = Unreadable(last.regions)
        /\ last.out = ExpectedFound(last.regions, last.src, last.flag)

\* the manual sequence: read the pointer at base_address, then read each
\* field at pointer + offset, in table order
RECURSIVE ManualFields(_, _, _, _)
ManualFields(hrec, pointer, targets, values) ==
    IF targets = <<>> THEN [status |-> "ok", out |-> values]
    ELSE LET r == ReadMemory(os, mem, hrec, pointer + targets[1].offset, targets[1].buffer)
         IN  IF r.status # "ok" THEN [status |-> r.status, out |-> <<>>]
             ELSE ManualFields(hrec, pointer, Tail(targets), Append(values, r.buf))

ManualDeref(hrec, base_address, targets) ==
    LET r == ReadMemory(os, mem, hrec, base_address, c_void_p)
    IN  IF r.status # "ok" THEN [status |-> r.status, out |-> <<>>]
        ELSE ManualFields(hrec, value(bytes(r.buf)), targets, <<>>)

(* C12: deref_struct_pointer through a live handle fails exactly when one  *)
(* of the reads of the manual sequence (the pointer at B, then each field  *)
(* at P + off_i) fails, and otherwise returns the values of that sequence  *)
(* in table order.                                                         *)
C12_DerefIsComposition ==
    (last.op = "deref" /\ last.live) =>
        LET manual == ManualDeref(handles[last.h], last.addr, last.targets)
        IN  /\ (last.status = "ok") = (manual.status = "ok")
            /\ last.status = "ok" => last.out = manual.out

(* C13: the class the platform exports is never refused as abstract when  *)
(* it is constructed, and write_memory_pointer(address, source, size) on a *)
(* live handle either fails, when [address, address + size) is not         *)
(* writable, or leaves the first size source bytes at that range and every *)
(* other byte of every process as it was.                                  *)
C13_WritePointerEveryBackend ==
    /\ (last.op \in {"open", "with_enter"} /\ last.cls = "Process") =>
           last.status # "TypeError"
    /\ (last.op = "write_pointer" /\ last.live) =>
           IF RangeWritable(last.addr, last.size)
           THEN /\ last.status = "ok"
                /\ mem = Poke(last.before, last.pid, last.addr,
                              SubSeq(bytes(last.src), 1, last.size))
           ELSE last.status # "ok" /\ mem = last.before

(* C14: on Linux, get_path on a live handle for pid p returns the first   *)
(* NUL-terminated token of /proc/p/cmdline of that pid, and the empty      *)
(* string only when /proc/p/cmdline does not exist.                        *)
C14_LinuxGetPathFirstToken ==
    (backend = "linux" /\ last.op = "get_path" /\ last.live) =>
        /\ last.status = "ok"
        /\ last.out = IF Format("{}", last.pid) \in ProcDirs
                      THEN FirstToken(Cmdline(last.pid))
                      ELSE <<>>

\* a record whose declared fields are all plain scalars
PlainRecord(x) ==
    x.kind = "struct" /\ \A i \in 1..Len(x.elems) : x.elems[i].kind = "scalar"

(* C15: ctypes_equal(a, b) returns false when a and b have different       *)
(* shapes; for the same shape it returns true exactly when a and b hold    *)
(* the same value in every scalar, array element and record field,         *)
(* nested ones included; and it does not raise when a is a record of       *)
(* plain scalars.                                                          *)
C15_CtypesEqualFieldByField ==
    last.op = "ctypes_equal" =>
        /\ TypeOf(last.src) # TypeOf(last.buf) => (last.status = "ok" /\ ~last.flag)
        /\ TypeOf(last.src) = TypeOf(last.buf) =>
               ((last.status = "ok" /\ last.flag) <=> last.src = last.buf)
        /\ PlainRecord(last.src) => last.status = "ok"

\* a close of a live Linux handle raised
CloseFailed ==
    /\ backend = "linux"
    /\ last.op \in {"close", "with_exit"}
    /\ last.live
    /\ last.status # "ok"

\* what every failed close has: the calls made are the first calls of the
\* sequence, none after the one that failed, and the handle keeps its pid
FailedCloseStopsThere ==
    /\ last.log = SubSeq(CloseSteps, 1, Len(last.log))
    /\ last.fault # 0 => Len(last.log) <= last.fault
    /\ handles[last.h].pid = last.pid
    /\ last.live_after

CallsNeeded(P) == 1 + Cardinality({k \in 0..MaxCalls : InitialCapacity * 2^k <= P})

(* C17: Windows list_available_pids asks for 100 pids and doubles the      *)
(* capacity after every call that reports exactly capacity pids; for P     *)
(* visible processes it ends at the smallest capacity 100 * 2^k greater    *)
(* than P and returns exactly the P pids; when a call of EnumProcesses     *)
(* fails it raises MemEditError and returns nothing.                       *)
C17_ListPidsDoubling ==
    last.op = "list_available_pids" =>
        LET P == os.visible
            calls == CallsNeeded(P)
            final == InitialCapacity * 2^(calls - 1)
        IN  IF last.fault \in 1..calls
            THEN last.status = "MemEditError" /\ last.out = <<>>
            ELSE /\ last.status = "ok"
                 /\ last.out = VisiblePids(os)
                 /\ last.log = [k \in 1..calls |-> InitialCapacity * 2^(k - 1)]
                 /\ last.size = final
                 /\ final > P
                 /\ calls > 1 => final \div 2 <= P

\* a listing that found the buffer exactly full twice and went on to 400
C17_Witness ==
    /\ last.op = "list_available_pids"
    /\ last.status = "ok"
    /\ os.visible = 2 * InitialCapacity
    /\ last.log = <<100, 200, 400>>
    /\ Len(last.out) = os.visible

\* a protection that includes one of the given classes
IncludesClass(protect, classes) == \E c \in classes : BitAnd(protect, c) # 0

\* the claim's condition for emitting a queried region
Emitted(attr, writeable_only) ==
    /\ attr.Type = MEM_PRIVATE
    /\ attr.State = MEM_COMMIT
    /\ IncludesClass(attr.Protect,
                     {PAGE_EXECUTE_READ, PAGE_EXECUTE_READWRITE, PAGE_READWRITE})
    /\ (~writeable_only
          \/ IncludesClass(attr.Protect, {PAGE_EXECUTE_READWRITE, PAGE_READWRITE}))

\* the regions of a snapshot that satisfy the condition, in address order
RECURSIVE EmittedFrom(_, _, _)
EmittedFrom(segs, i, writeable_only) ==
    IF i > Len(segs) THEN <<>>
    ELSE (IF Emitted(segs[i].attr, writeable_only)
          THEN <<(<<SegStart(segs, i), SegStop(segs, i)>>)>> ELSE <<>>)
         \o EmittedFrom(segs, i + 1, writeable_only)

ProducerInPayload == demo.pc \in {"writing", "payload_done"}

\* bytes of the array held in demo.input
PayloadLength == Len(demo.input.bytes)

(* C19: write_to_shared_memory writes the payload only after it read 0 at  *)
(* the control word and found that the payload fits between start + 8 and  *)
(* the end marker; once written the payload bytes are at [start + 8,       *)
(* start + 8 + length) and both markers are as they were; the control byte *)
(* is set only after the payload is in place; and the consumer never owns  *)
(* the payload while the producer is between its check and its setting of  *)
(* the control byte.                                                       *)
C19_ProducerHandshake ==
    /\ demo.pc \in {"writing", "payload_done", "flagged"} =>
           /\ demo.control = 0
           /\ PayloadLength <= ShmEnd - BeginningAddr
    /\ demo.pc \in {"payload_done", "flagged"} =>
           Peek(mem, ShmPid, BeginningAddr, PayloadLength) = demo.input.bytes
    /\ Peek(mem, ShmPid, ShmStart, WordSize) = MagicStart
    /\ Peek(mem, ShmPid, ShmEnd, WordSize) = MagicEnd
    /\ ~(ProducerInPayload /\ demo.consumer = "owns")

=============================================================================
